---------------------------- MODULE Spec2Model ----------------------------
(***************************************************************************)
(* The dnscat2 client session (client/controller/session.c): handshake,    *)
(* 16-bit SEQ/ACK bookkeeping, the retransmission gate and the life of the *)
(* outgoing buffer.                                                        *)
(*                                                                         *)
(* Application bytes are tagged with their offset in the driver's stream:  *)
(* the n-th byte a driver hands to poll_for_data is the value n-1.  The    *)
(* outgoing buffer only ever appends the driver's next bytes and drops     *)
(* bytes from its front, so it always holds a contiguous run of offsets    *)
(* and is kept as the pair (position, current_length) of buffer_t; the     *)
(* bytes it holds are position .. current_length-1.  Payloads of frames    *)
(* and the bytes handed to driver_data_received are ordinary sequences.    *)
(***************************************************************************)
EXTENDS Integers, Sequences, FiniteSets, TLC

(***************************************************************************)
(* Program constants                                                       *)
(***************************************************************************)
RETRANSMIT_DELAY == 1000

SeqModulus == 65536

\* Stand-in for a size_t that wrapped below zero: larger than any buffer.
SIZE_WRAPPED == 2147483647

SESSION_STATE_NEW == "NEW"

SESSION_STATE_ESTABLISHED == "ESTABLISHED"

PACKET_TYPE_SYN == "SYN"

PACKET_TYPE_MSG == "MSG"

PACKET_TYPE_FIN == "FIN"

\* A frame type the session does not know (the codec's PING, for one).
PACKET_TYPE_OTHER == "PING"

\* driver_get_outgoing returned NULL.
NO_DATA == -1

\* No frame has been produced yet.
NEVER == 0 - 1

(***************************************************************************)
(* Bounds of the model                                                     *)
(***************************************************************************)
\* Clock steps the single-session model runs through.
MaxTicks == 2

\* Bytes a driver hands out in total.
MaxPulled == 2

\* Bytes the peer may deliver in total (caps their_seq's walk).
MaxReceived == 2

(***************************************************************************)
(* Input sets                                                              *)
(***************************************************************************)
Min(a, b) == IF a <= b THEN a ELSE b

\* First clock reading: a wall clock in ms, far past RETRANSMIT_DELAY.
StartTime == 2 * RETRANSMIT_DELAY

\* The clock moves in steps of the delay, so that a call can fall exactly
\* RETRANSMIT_DELAY after a frame.
TickStep == RETRANSMIT_DELAY

MaxTime == StartTime + MaxTicks * TickStep

\* rand() % 0xFFFF, or the 16-bit value given to debug_set_isn.
InitialSeqs == {65534}

SessionIds == {7}

OptionValues == {0, 1}

\* ISN and options of the SYNs a peer may send.
PeerSyns == {<<4660, 0>>, <<65535, 1>>}

Sides == {1, 2}

Other(side) == 3 - side

(***************************************************************************)
(* The byte buffer (libs/buffer): append, peek, consume, remaining.        *)
(***************************************************************************)
buffer_create == [position |-> 0, current_length |-> 0]

buffer_get_remaining_bytes(buffer) == buffer.current_length - buffer.position

\* Appends the driver's next `length` bytes.
buffer_add_bytes(buffer, length) ==
  [buffer EXCEPT !.current_length = @ + length]

\* The first min(remaining, max_bytes) bytes, left in the buffer.
buffer_read_remaining_bytes(buffer, max_bytes) ==
  LET n == Min(buffer_get_remaining_bytes(buffer), max_bytes)
  IN  [i \in 1..n |-> buffer.position + i - 1]

buffer_consume(buffer, count) ==
  [buffer EXCEPT !.position = @ + count]

\* The bytes the buffer holds, in order.
BufferBytes(buffer) ==
  [i \in 1..buffer_get_remaining_bytes(buffer) |-> buffer.position + i - 1]

(***************************************************************************)
(* The packet codec (packet.c): frames as records.                         *)
(***************************************************************************)
Packet(type, id, seq, ack, options, data) ==
  [packet_type |-> type, session_id |-> id, seq |-> seq, ack |-> ack,
   options |-> options, data |-> data]

NoPacket == Packet("NULL", 0, 0, 0, 0, <<>>)

packet_create_syn(id, seq, options) ==
  Packet(PACKET_TYPE_SYN, id, seq, 0, options, <<>>)

packet_create_msg_normal(id, seq, ack, data) ==
  Packet(PACKET_TYPE_MSG, id, seq, ack, 0, data)

packet_create_fin(id) == Packet(PACKET_TYPE_FIN, id, 0, 0, 0, <<>>)

\* Header bytes of a MSG frame under the given options.
packet_get_msg_size(options) == 8 + 2 * options

(***************************************************************************)
(* session.c                                                               *)
(***************************************************************************)
\* session_create: options is not assigned by session_create.
session_create(id, isn, options) ==
  [id |-> id, my_seq |-> isn, state |-> SESSION_STATE_NEW, their_seq |-> 0,
   is_shutdown |-> FALSE, last_transmit |-> 0,
   outgoing_buffer |-> buffer_create, options |-> options]

update_counter(session, time_ms) ==
  [session EXCEPT !.last_transmit = time_ms]

\* Variant: the gate opens when the delay has just been reached.
can_i_transmit_yet_AtDelay(session, time_ms) ==
  time_ms - session.last_transmit >= RETRANSMIT_DELAY

can_i_transmit_yet(session, time_ms) ==
  time_ms - session.last_transmit > RETRANSMIT_DELAY

\* `length` is NO_DATA when the driver returned NULL, else the byte count.
poll_for_data(session, length) ==
  IF length = NO_DATA
  THEN IF buffer_get_remaining_bytes(session.outgoing_buffer) = 0
       THEN [session EXCEPT !.is_shutdown = TRUE]
       ELSE session
  ELSE IF length # 0
       THEN [session EXCEPT !.outgoing_buffer = buffer_add_bytes(@, length)]
       ELSE session

\* max_length - packet_get_msg_size(options), in size_t.
MsgBudget(max_length, options) ==
  IF max_length >= packet_get_msg_size(options)
  THEN max_length - packet_get_msg_size(options)
  ELSE SIZE_WRAPPED

\* Variant: a session that is shut down sends its FIN at once.
EstablishedPacket_FinOnShutdown(session, max_length) ==
  LET data == buffer_read_remaining_bytes(session.outgoing_buffer,
                                          MsgBudget(max_length, session.options))
  IN  IF session.is_shutdown
      THEN packet_create_fin(session.id)
      ELSE packet_create_msg_normal(session.id, session.my_seq,
                                    session.their_seq, data)

\* The frame session_get_outgoing builds in state Established.
EstablishedPacket(session, max_length) ==
  LET data == buffer_read_remaining_bytes(session.outgoing_buffer,
                                          MsgBudget(max_length, session.options))
  IN  IF Len(data) = 0 /\ session.is_shutdown
      THEN packet_create_fin(session.id)
      ELSE packet_create_msg_normal(session.id, session.my_seq,
                                    session.their_seq, data)

\* Variant: my_seq moves on when the bytes are sent, not when they are
\* acknowledged.
session_get_outgoing_AdvanceOnSend(session, time_ms, max_length, length) ==
  LET polled == poll_for_data(session, length)
  IN  IF ~can_i_transmit_yet(polled, time_ms)
      THEN [session |-> polled, result |-> NoPacket]
      ELSE IF polled.state = SESSION_STATE_NEW
           THEN [session |-> update_counter(polled, time_ms),
                 result |-> packet_create_syn(polled.id, polled.my_seq, 0)]
           ELSE [session |->
                   [update_counter(polled, time_ms) EXCEPT
                      !.my_seq = (@ + Len(EstablishedPacket(polled, max_length).data))
                                   % SeqModulus],
                 result |-> EstablishedPacket(polled, max_length)]

\* Variant: the bytes are taken out of the buffer when they are sent.
session_get_outgoing_Consume(session, time_ms, max_length, length) ==
  LET polled == poll_for_data(session, length)
  IN  IF ~can_i_transmit_yet(polled, time_ms)
      THEN [session |-> polled, result |-> NoPacket]
      ELSE IF polled.state = SESSION_STATE_NEW
           THEN [session |-> update_counter(polled, time_ms),
                 result |-> packet_create_syn(polled.id, polled.my_seq, 0)]
           ELSE [session |->
                   [update_counter(polled, time_ms) EXCEPT
                      !.outgoing_buffer =
                        buffer_consume(@, Len(EstablishedPacket(polled, max_length).data))],
                 result |-> EstablishedPacket(polled, max_length)]

\* Returns the session after the call and the frame (NoPacket for NULL).
session_get_outgoing(session, time_ms, max_length, length) ==
  LET polled == poll_for_data(session, length)
  IN  IF ~can_i_transmit_yet(polled, time_ms)
      THEN [session |-> polled, result |-> NoPacket]
      ELSE IF polled.state = SESSION_STATE_NEW
           THEN [session |-> update_counter(polled, time_ms),
                 result |-> packet_create_syn(polled.id, polled.my_seq, 0)]
           ELSE [session |-> update_counter(polled, time_ms),
                 result |-> EstablishedPacket(polled, max_length)]

\* uint16_t bytes_acked = ack - my_seq.
BytesAcked(ack, my_seq) == (ack - my_seq) % SeqModulus

\* Variant: any SEQ up to the expected one passes.
SeqValid_UpTo(packet, session) == packet.seq <= session.their_seq

SeqValid(packet, session) == packet.seq = session.their_seq

\* Variant: an ACK for the whole buffer is refused.
AckValid_Strict(packet, session) ==
  BytesAcked(packet.ack, session.my_seq)
    < buffer_get_remaining_bytes(session.outgoing_buffer)

\* Variant: the ACK is not checked.
AckValid_Unchecked(packet, session) == TRUE

AckValid(packet, session) ==
  BytesAcked(packet.ack, session.my_seq)
    <= buffer_get_remaining_bytes(session.outgoing_buffer)

\* Variant: the sum is not cut to 16 bits.
NextTheirSeq_NoMask(their_seq, data_length) == their_seq + data_length

NextTheirSeq(their_seq, data_length) == (their_seq + data_length) % SeqModulus

NextMySeq(my_seq, bytes_acked) ==
  IF bytes_acked # 0 THEN (my_seq + bytes_acked) % SeqModulus ELSE my_seq

\* What one call leaves behind: the session, the payload handed to
\* driver_data_received, whether driver_close ran, whether the process
\* exited, and how the checks of a MSG ended ("ok", "bad_seq", "bad_ack";
\* "none" when no MSG was checked).
Outcome(session, forwarded, closed, exited, verdict) ==
  [session |-> session, forwarded |-> forwarded, closed |-> closed,
   exited |-> exited, verdict |-> verdict]

\* Variant: an accepted MSG calls reset_counter.
AcceptMsg_ResetCounter(session, packet) ==
  LET bytes_acked == BytesAcked(packet.ack, session.my_seq)
  IN  [session EXCEPT
         !.last_transmit = 0,
         !.their_seq = NextTheirSeq(@, Len(packet.data)),
         !.outgoing_buffer = buffer_consume(@, bytes_acked),
         !.my_seq = NextMySeq(@, bytes_acked)]

\* A MSG that passed the SEQ and ACK checks.
AcceptMsg(session, packet) ==
  LET bytes_acked == BytesAcked(packet.ack, session.my_seq)
  IN  [session EXCEPT
         !.their_seq = NextTheirSeq(@, Len(packet.data)),
         !.outgoing_buffer = buffer_consume(@, bytes_acked),
         !.my_seq = NextMySeq(@, bytes_acked)]

\* Variant: the SYN's options are not adopted.
IncomingNew_KeepOptions(session, packet) ==
  IF packet.packet_type = PACKET_TYPE_SYN
  THEN Outcome([session EXCEPT !.their_seq = packet.seq,
                               !.state = SESSION_STATE_ESTABLISHED],
               <<>>, FALSE, FALSE, "none")
  ELSE IF packet.packet_type = PACKET_TYPE_MSG
       THEN Outcome(session, <<>>, FALSE, FALSE, "none")
       ELSE Outcome(session, <<>>, FALSE, TRUE, "none")

\* Variant: the handshake starts the session afresh.
IncomingNew_ClearShutdown(session, packet) ==
  IF packet.packet_type = PACKET_TYPE_SYN
  THEN Outcome([session EXCEPT !.their_seq = packet.seq,
                               !.options = packet.options,
                               !.is_shutdown = FALSE,
                               !.state = SESSION_STATE_ESTABLISHED],
               <<>>, FALSE, FALSE, "none")
  ELSE IF packet.packet_type = PACKET_TYPE_MSG
       THEN Outcome(session, <<>>, FALSE, FALSE, "none")
       ELSE Outcome(session, <<>>, FALSE, TRUE, "none")

IncomingNew(session, packet) ==
  IF packet.packet_type = PACKET_TYPE_SYN
  THEN Outcome([session EXCEPT !.their_seq = packet.seq,
                               !.options = packet.options,
                               !.state = SESSION_STATE_ESTABLISHED],
               <<>>, FALSE, FALSE, "none")
  ELSE IF packet.packet_type = PACKET_TYPE_MSG
       THEN Outcome(session, <<>>, FALSE, FALSE, "none")
       ELSE Outcome(session, <<>>, FALSE, TRUE, "none")

\* Variant: a SYN in state Established starts the handshake over.
IncomingEstablished_Restart(session, packet) ==
  IF packet.packet_type = PACKET_TYPE_SYN
  THEN Outcome([session EXCEPT !.state = SESSION_STATE_NEW],
               <<>>, FALSE, FALSE, "none")
  ELSE IF packet.packet_type = PACKET_TYPE_MSG
       THEN IF SeqValid(packet, session)
            THEN IF AckValid(packet, session)
                 THEN Outcome(AcceptMsg(session, packet), packet.data,
                              FALSE, FALSE, "ok")
                 ELSE Outcome(session, <<>>, FALSE, FALSE, "bad_ack")
            ELSE Outcome(session, <<>>, FALSE, FALSE, "bad_seq")
       ELSE Outcome([session EXCEPT !.is_shutdown = TRUE],
                    <<>>, TRUE, FALSE, "none")

\* Variant: a SYN in state Established is taken as a new ISN of the peer.
IncomingEstablished_AdoptSyn(session, packet) ==
  IF packet.packet_type = PACKET_TYPE_SYN
  THEN Outcome([session EXCEPT !.their_seq = packet.seq],
               <<>>, FALSE, FALSE, "none")
  ELSE IF packet.packet_type = PACKET_TYPE_MSG
       THEN IF SeqValid(packet, session)
            THEN IF AckValid(packet, session)
                 THEN Outcome(AcceptMsg(session, packet), packet.data,
                              FALSE, FALSE, "ok")
                 ELSE Outcome(session, <<>>, FALSE, FALSE, "bad_ack")
            ELSE Outcome(session, <<>>, FALSE, FALSE, "bad_seq")
       ELSE Outcome([session EXCEPT !.is_shutdown = TRUE],
                    <<>>, TRUE, FALSE, "none")

IncomingEstablished(session, packet) ==
  IF packet.packet_type = PACKET_TYPE_SYN
  THEN Outcome(session, <<>>, FALSE, FALSE, "none")
  ELSE IF packet.packet_type = PACKET_TYPE_MSG
       THEN IF SeqValid(packet, session)
            THEN IF AckValid(packet, session)
                 THEN Outcome(AcceptMsg(session, packet), packet.data,
                              FALSE, FALSE, "ok")
                 ELSE Outcome(session, <<>>, FALSE, FALSE, "bad_ack")
            ELSE Outcome(session, <<>>, FALSE, FALSE, "bad_seq")
       ELSE Outcome([session EXCEPT !.is_shutdown = TRUE],
                    <<>>, TRUE, FALSE, "none")

session_data_incoming(session, packet, length) ==
  LET polled == poll_for_data(session, length)
  IN  IF polled.state = SESSION_STATE_NEW
      THEN IncomingNew(polled, packet)
      ELSE IncomingEstablished(polled, packet)

(***************************************************************************)
(* The transport driver: the source of application bytes and the sink of   *)
(* received payload.  A NULL from driver_get_outgoing is permanent, and a   *)
(* closed driver hands out nothing more.                                   *)
(***************************************************************************)
driver_create == [eof |-> FALSE, closed |-> FALSE, received |-> <<>>]

\* What driver_get_outgoing may return next: NULL, or its next bytes.
DriverReads(driver, buffer, lengths, cap) ==
  IF driver.eof \/ driver.closed
  THEN {NO_DATA}
  ELSE {NO_DATA} \cup {n \in lengths : buffer.current_length + n <= cap}

driver_get_outgoing(driver, length) ==
  IF length = NO_DATA THEN [driver EXCEPT !.eof = TRUE] ELSE driver

driver_data_received(driver, data) ==
  [driver EXCEPT !.received = @ \o data]

driver_close(driver) == [driver EXCEPT !.closed = TRUE]

(***************************************************************************)
(* State                                                                   *)
(***************************************************************************)
VARIABLES
  sessions,   \* side -> session_t
  drivers,    \* side -> the driver bound to the session
  exited,     \* side -> the process called exit()
  now,        \* time_ms()
  wire,       \* frames handed to the carrier: [to, packet]
  call,       \* the most recent call of the session's interface
  hist        \* side -> what the session has done so far

vars == <<sessions, drivers, exited, now, wire, call, hist>>

\* op: the entry point called; packet_type: the type of the frame it was
\* given; result_type: the type of the frame it returned ("NULL" for none);
\* result_length: its payload's length; verdict: how the checks of an
\* incoming MSG ended.
NoCall ==
  [op |-> "none", side |-> 0, packet_type |-> "NULL", result_type |-> "NULL",
   result_length |-> 0, verdict |-> "none"]

\* seq, data: of the MSG; max_length: the budget it was produced under;
\* again: the frame produced before it was such a MSG too, under the same
\* budget.
NoMsg == [seq |-> 0, data |-> <<>>, max_length |-> 0, again |-> FALSE]

\* last_msg after session_get_outgoing returned `packet`.
LastMsg(last, packet, max_length) ==
  IF packet = NoPacket THEN last
  ELSE IF packet.packet_type = PACKET_TYPE_MSG
       THEN [seq |-> packet.seq, data |-> packet.data,
             max_length |-> max_length,
             again |-> last # NoMsg /\ last.max_length = max_length]
       ELSE NoMsg

\* sent_end: one past the highest stream offset carried by a produced MSG.
\* accepted_seqs: SEQs of the accepted MSGs that carried payload.
\* exhausted: poll_for_data saw NULL from the driver with an empty buffer.
\* produced: types of the frames produced since `exhausted`.
\* last_emit: when session_get_outgoing last returned a frame (NEVER: not yet).
\* redelivered: a MSG arrived whose SEQ was that of an accepted MSG.
\* fatal: a FIN arrived in state New, or a frame of unknown type arrived.
\* last_msg: the frame produced last, if it was a MSG and no MSG has been
\*   accepted since (NoMsg otherwise).
NoHist ==
  [sent_end |-> 0, accepted_seqs |-> {}, exhausted |-> FALSE,
   produced |-> <<>>, last_emit |-> NEVER, redelivered |-> FALSE,
   fatal |-> FALSE, last_msg |-> NoMsg]

\* The record `h` with the fields outside `tracked` left as in NoHist: a
\* specification records what its properties are about.
Tracked(h, tracked) ==
  [f \in DOMAIN NoHist |-> IF f \in tracked THEN h[f] ELSE NoHist[f]]

InitOn(sides) ==
  /\ \E id \in SessionIds, options \in OptionValues :
       \E isn \in [sides -> InitialSeqs] :
         sessions = [side \in sides |-> session_create(id, isn[side], options)]
  /\ drivers = [side \in sides |-> driver_create]
  /\ exited = [side \in sides |-> FALSE]
  /\ now = StartTime
  /\ wire = {}
  /\ call = NoCall
  /\ hist = [side \in sides |-> NoHist]

\* poll_for_data found the driver at its end with nothing queued.
Exhausts(session, length) ==
  length = NO_DATA /\ buffer_get_remaining_bytes(session.outgoing_buffer) = 0

\* The frames session_data_incoming calls fatal.
Fatal(session, packet) ==
  \/ packet.packet_type \notin
       {PACKET_TYPE_SYN, PACKET_TYPE_MSG, PACKET_TYPE_FIN}
  \/ /\ session.state = SESSION_STATE_NEW
     /\ packet.packet_type = PACKET_TYPE_FIN

SentEnd(packet) ==
  IF packet.packet_type = PACKET_TYPE_MSG /\ Len(packet.data) > 0
  THEN packet.data[Len(packet.data)] + 1
  ELSE 0

Max(a, b) == IF a >= b THEN a ELSE b

(***************************************************************************)
(* session_get_outgoing, called by the poll loop of `side`.                *)
(***************************************************************************)
GetOutgoing(side, max_length, length, tracked) ==
  /\ ~exited[side]
  /\ LET r == session_get_outgoing(sessions[side], now, max_length, length)
         ex == hist[side].exhausted \/ Exhausts(sessions[side], length)
     IN  /\ sessions' = [sessions EXCEPT ![side] = r.session]
         /\ drivers' = [drivers EXCEPT ![side] = driver_get_outgoing(@, length)]
         /\ call' = [NoCall EXCEPT !.op = "get_outgoing", !.side = side,
                                  !.result_type = r.result.packet_type,
                                  !.result_length = Len(r.result.data)]
         /\ hist' = [hist EXCEPT ![side] = Tracked(
                       [@ EXCEPT
                          !.sent_end = Max(@, SentEnd(r.result)),
                          !.exhausted = ex,
                          !.last_emit = IF r.result # NoPacket THEN now ELSE @,
                          !.last_msg = LastMsg(@, r.result, max_length),
                          !.produced =
                            IF ex /\ r.result # NoPacket
                            THEN Append(@, r.result.packet_type) ELSE @],
                       tracked)]
  /\ UNCHANGED <<exited, now>>

(***************************************************************************)
(* session_data_incoming, called with a frame the carrier delivered.       *)
(***************************************************************************)
DataIncoming(side, packet, length, tracked) ==
  /\ ~exited[side]
  /\ LET r == session_data_incoming(sessions[side], packet, length)
         d0 == driver_get_outgoing(drivers[side], length)
         d1 == IF Len(r.forwarded) > 0
               THEN driver_data_received(d0, r.forwarded) ELSE d0
         d2 == IF r.closed THEN driver_close(d1) ELSE d1
     IN  /\ sessions' = [sessions EXCEPT ![side] = r.session]
         /\ drivers' = [drivers EXCEPT ![side] = d2]
         /\ exited' = [exited EXCEPT ![side] = r.exited]
         /\ call' = [NoCall EXCEPT !.op = "data_incoming", !.side = side,
                                  !.packet_type = packet.packet_type,
                                  !.verdict = r.verdict]
         /\ hist' = [hist EXCEPT ![side] = Tracked(
                       [@ EXCEPT
                          !.exhausted = @ \/ Exhausts(sessions[side], length),
                          !.accepted_seqs =
                            IF r.verdict = "ok" /\ Len(packet.data) > 0
                            THEN @ \cup {packet.seq} ELSE @,
                          !.redelivered =
                            @ \/ (/\ packet.packet_type = PACKET_TYPE_MSG
                                  /\ packet.seq \in hist[side].accepted_seqs),
                          !.fatal = @ \/ Fatal(sessions[side], packet),
                          !.last_msg = IF r.verdict = "ok" THEN NoMsg ELSE @],
                       tracked)]
  /\ UNCHANGED now

Tick(step, limit) ==
  /\ now + step <= limit
  /\ now' = now + step
  /\ UNCHANGED <<sessions, drivers, exited, wire, call, hist>>

(***************************************************************************)
(* One session fed by an arbitrary peer.                                   *)
(***************************************************************************)
Payloads == {<<>>, <<65>>}

\* Where an incoming MSG's SEQ and ACK lie, relative to their_seq and my_seq.
SeqOffsets == {-1, 0, 1}

AckOffsets == {-1, 0, 1, 2}

\* Byte counts one driver read may return.
ReadLengths == {0, 1, 2}

\* Frames an arbitrary peer may send: SEQ and ACK around the expected ones.
IncomingPackets(session) ==
  {packet_create_syn(session.id, syn[1], syn[2]) : syn \in PeerSyns}
  \cup {packet_create_msg_normal(session.id,
                                 (session.their_seq + ds) % SeqModulus,
                                 (session.my_seq + da) % SeqModulus, data) :
          ds \in SeqOffsets, da \in AckOffsets, data \in Payloads}
  \cup {packet_create_fin(session.id),
        Packet(PACKET_TYPE_OTHER, session.id, 0, 0, 0, <<>>)}

MaxLengths ==
  {packet_get_msg_size(0) - 1, packet_get_msg_size(0),
   packet_get_msg_size(0) + 1}

Reads(side) ==
  DriverReads(drivers[side], sessions[side].outgoing_buffer, ReadLengths, MaxPulled)

\* What the single-session model records of the calls.
History == {"last_emit", "accepted_seqs", "redelivered"}

Init == InitOn({1})

Produce ==
  \E max_length \in MaxLengths, length \in Reads(1) :
    GetOutgoing(1, max_length, length, History) /\ UNCHANGED wire

Receive ==
  \E packet \in IncomingPackets(sessions[1]), length \in Reads(1) :
    /\ Len(drivers[1].received) + Len(packet.data) <= MaxReceived
    /\ DataIncoming(1, packet, length, History)
    /\ UNCHANGED wire

Advance == Tick(TickStep, MaxTime)

Next == Produce \/ Receive \/ Advance

Spec == Init /\ [][Next]_vars

(***************************************************************************)
(* Two sessions joined by a carrier.  A frame handed to the carrier stays  *)
(* on the wire: it may be delivered late, more than once, or never.        *)
(***************************************************************************)
\* Clock steps the linked model runs through, each just over the delay.
LinkTicks == 2

LinkTickStep == RETRANSMIT_DELAY + 1

LinkMaxTime == StartTime + LinkTicks * LinkTickStep

\* Sizes of the successive non-empty reads of each side's driver: side 1
\* types a byte, is fed a 64 KiB block, then types on; side 2 has nothing
\* to send.
LinkChunks(side) == IF side = 1 THEN <<1, 65535, 1, 1>> ELSE <<>>

RECURSIVE ChunkSum(_, _)
ChunkSum(chunks, n) == IF n = 0 THEN 0 ELSE chunks[n] + ChunkSum(chunks, n - 1)

\* What the driver of `side` may return next: nothing new, or its next chunk.
LinkReads(side) ==
  {0} \cup {LinkChunks(side)[n] : n \in
              {k \in 1..Len(LinkChunks(side)) :
                 ChunkSum(LinkChunks(side), k - 1)
                   = sessions[side].outgoing_buffer.current_length}}

LinkMaxLengths == {packet_get_msg_size(0) + 1}

LinkInit == InitOn(Sides)

LinkProduce ==
  \E side \in Sides, max_length \in LinkMaxLengths :
   \E length \in LinkReads(side) :
    /\ GetOutgoing(side, max_length, length, History)
    /\ LET r == session_get_outgoing(sessions[side], now, max_length, length)
       IN  wire' = IF r.result = NoPacket THEN wire
                   ELSE wire \cup {[to |-> Other(side), packet |-> r.result]}

LinkReceive ==
  \E message \in wire :
   \E length \in LinkReads(message.to) :
    /\ DataIncoming(message.to, message.packet, length, History)
    /\ UNCHANGED wire

LinkAdvance == Tick(LinkTickStep, LinkMaxTime)

LinkNext == LinkProduce \/ LinkReceive \/ LinkAdvance

SpecLink == LinkInit /\ [][LinkNext]_vars

(***************************************************************************)
(* One session fed by an arbitrary peer, recording which bytes it has sent *)
(* and how it came to its end.                                             *)
(***************************************************************************)
TraceHistory == {"sent_end", "exhausted", "produced", "fatal"}

TraceInit == InitOn({1})

TraceProduce ==
  \E max_length \in MaxLengths, length \in Reads(1) :
    GetOutgoing(1, max_length, length, TraceHistory) /\ UNCHANGED wire

TraceReceive ==
  \E packet \in IncomingPackets(sessions[1]), length \in Reads(1) :
    /\ Len(drivers[1].received) + Len(packet.data) <= MaxReceived
    /\ DataIncoming(1, packet, length, TraceHistory)
    /\ UNCHANGED wire

TraceAdvance == Tick(TickStep, MaxTime)

TraceNext == TraceProduce \/ TraceReceive \/ TraceAdvance

SpecTrace == TraceInit /\ [][TraceNext]_vars

(***************************************************************************)
(* One session fed by an arbitrary peer, recording the MSG produced last.  *)
(***************************************************************************)
ResendHistory == {"last_msg"}

ResendInit == InitOn({1})

ResendProduce ==
  \E max_length \in MaxLengths, length \in Reads(1) :
    GetOutgoing(1, max_length, length, ResendHistory) /\ UNCHANGED wire

\* Frames the peer may send between two frames of the session: those of
\* IncomingPackets that carry no payload.
ResendPackets(session) ==
  {packet \in IncomingPackets(session) : packet.data = <<>>}

ResendReceive ==
  \E packet \in ResendPackets(sessions[1]), length \in Reads(1) :
    /\ DataIncoming(1, packet, length, ResendHistory)
    /\ UNCHANGED wire

ResendAdvance == Tick(TickStep, MaxTime)

ResendNext == ResendProduce \/ ResendReceive \/ ResendAdvance

SpecResend == ResendInit /\ [][ResendNext]_vars

(***************************************************************************)
(* One session whose poll loop never stops: the clock keeps advancing up   *)
(* to the horizon, and session_get_outgoing keeps being called with room   *)
(* for payload under either value of options.                              *)
(***************************************************************************)
\* Clock steps up to the horizon.
LiveTicks == 2

LiveMaxTime == StartTime + LiveTicks * TickStep

LiveHistory == {"last_emit", "last_msg"}

LiveMaxLengths == {packet_get_msg_size(1) + 1}

\* Bytes the driver hands out in total, one at a time.
LivePulled == 2

LiveReads ==
  DriverReads(drivers[1], sessions[1].outgoing_buffer, {0, 1}, LivePulled)

\* Bytes an incoming MSG may acknowledge.
LiveAcks == {0, 1, 3}

\* Frames the peer may send: its SYN, a FIN, a frame of unknown type, and
\* MSGs without payload.
LivePackets(session) ==
  {packet_create_syn(session.id, 4660, 1)}
  \cup {packet_create_msg_normal(session.id, session.their_seq,
                                 (session.my_seq + da) % SeqModulus, <<>>) :
          da \in LiveAcks}
  \cup {packet_create_fin(session.id),
        Packet(PACKET_TYPE_OTHER, session.id, 0, 0, 0, <<>>)}

LiveInit == InitOn({1})

LiveProduce ==
  \E max_length \in LiveMaxLengths, length \in LiveReads :
    GetOutgoing(1, max_length, length, LiveHistory) /\ UNCHANGED wire

LiveReceive ==
  \E packet \in LivePackets(sessions[1]), length \in LiveReads :
    /\ DataIncoming(1, packet, length, LiveHistory)
    /\ UNCHANGED wire

LiveAdvance == Tick(TickStep, LiveMaxTime)

LiveNext == LiveProduce \/ LiveReceive \/ LiveAdvance

SpecLive ==
  /\ LiveInit /\ [][LiveNext]_vars
  /\ WF_vars(LiveAdvance)
  /\ WF_vars(LiveProduce)

(***************************************************************************)
(* Properties.  U16 is the 16-bit value of an integer; the properties say  *)
(* with it what the counters must be, apart from the session's own         *)
(* arithmetic.                                                             *)
(***************************************************************************)
U16(n) == ((n % 65536) + 65536) % 65536

IsPrefix(s, t) == Len(s) <= Len(t) /\ SubSeq(t, 1, Len(s)) = s

\* A MSG that must pass both checks in the session `polled`.
MustAccept(polled, packet) ==
  /\ polled.state = SESSION_STATE_ESTABLISHED
  /\ packet.packet_type = PACKET_TYPE_MSG
  /\ packet.seq = polled.their_seq
  /\ U16(packet.ack - polled.my_seq)
       <= polled.outgoing_buffer.current_length - polled.outgoing_buffer.position

\* A MSG that must fail one of the checks in the session `polled`.
MustReject(polled, packet) ==
  /\ polled.state = SESSION_STATE_ESTABLISHED
  /\ packet.packet_type = PACKET_TYPE_MSG
  /\ \/ packet.seq # polled.their_seq
     \/ U16(packet.ack - polled.my_seq)
          > polled.outgoing_buffer.current_length - polled.outgoing_buffer.position

\* C2: every MSG accepted in state Established moves their_seq forward by
\* the length of its payload, modulo 2^16.
C2_TheirSeqAdvances ==
  \A packet \in IncomingPackets(sessions[1]), length \in Reads(1) :
    LET polled == poll_for_data(sessions[1], length)
        r == session_data_incoming(sessions[1], packet, length)
    IN  MustAccept(polled, packet)
        => r.session.their_seq = U16(polled.their_seq + Len(packet.data))

\* An accepted MSG with SEQ 0xFFFF and one byte of payload has taken
\* their_seq round to 0.
C2_Witness ==
  /\ call.op = "data_incoming" /\ call.verdict = "ok"
  /\ 65535 \in hist[1].accepted_seqs
  /\ sessions[1].their_seq = 0

C4_OnlySentBytesLeave ==
  \A side \in DOMAIN sessions :
    sessions[side].outgoing_buffer.position <= hist[side].sent_end

\* C5 (as claimed): once poll_for_data has seen the driver at its end with
\* an empty buffer, the session produces one FIN and nothing after it.
C5_FinThenSilence ==
  \A side \in DOMAIN sessions :
    hist[side].produced \in {<<>>, <<PACKET_TYPE_FIN>>}

\* C6 (as claimed): once is_shutdown is true, no call appends bytes to
\* outgoing_buffer and no MSG carrying data is produced.
C6_NothingQueuedAfterShutdown ==
  [][\A side \in DOMAIN sessions :
       sessions[side].is_shutdown
       => /\ sessions'[side].outgoing_buffer.current_length
               = sessions[side].outgoing_buffer.current_length
          /\ ~(/\ call'.op = "get_outgoing" /\ call'.side = side
               /\ call'.result_type = PACKET_TYPE_MSG
               /\ call'.result_length > 0)]_vars

SynSeqs == {0, 4660, 65535}

\* C8: a SYN with ISN s and options O takes a New session to Established
\* with their_seq = s and options = O; my_seq and the queued bytes stay.
C8_Handshake ==
  \A s \in SynSeqs, options \in OptionValues, length \in Reads(1) :
    LET polled == poll_for_data(sessions[1], length)
        r == session_data_incoming(sessions[1],
               packet_create_syn(sessions[1].id, s, options), length)
    IN  polled.state = SESSION_STATE_NEW
        => /\ r.session.state = SESSION_STATE_ESTABLISHED
           /\ r.session.their_seq = s
           /\ r.session.options = options
           /\ r.session.my_seq = sessions[1].my_seq
           /\ r.session.outgoing_buffer = polled.outgoing_buffer
           /\ IsPrefix(BufferBytes(sessions[1].outgoing_buffer),
                       BufferBytes(r.session.outgoing_buffer))
           /\ ~r.exited

\* A SYN was the last frame processed; the session is Established with the
\* SYN's ISN and options, and both bytes queued before are still there.
C8_Witness ==
  /\ call.op = "data_incoming" /\ call.packet_type = PACKET_TYPE_SYN
  /\ sessions[1].state = SESSION_STATE_ESTABLISHED
  /\ sessions[1].their_seq = 65535 /\ sessions[1].options = 1
  /\ sessions[1].my_seq = 65534
  /\ BufferBytes(sessions[1].outgoing_buffer) = <<0, 1>>

\* C9: a MSG in state Established whose SEQ differs from their_seq, or
\* whose bytes_acked exceeds the buffered bytes, changes nothing in the
\* session and hands no payload to the driver.
C9_InvalidMsgDropped ==
  \A packet \in IncomingPackets(sessions[1]), length \in Reads(1) :
    LET polled == poll_for_data(sessions[1], length)
        r == session_data_incoming(sessions[1], packet, length)
    IN  MustReject(polled, packet)
        => /\ r.session = polled
           /\ r.session.state = sessions[1].state
           /\ r.session.my_seq = sessions[1].my_seq
           /\ r.session.their_seq = sessions[1].their_seq
           /\ r.session.outgoing_buffer.position
                = sessions[1].outgoing_buffer.position
           /\ r.forwarded = <<>>
           /\ ~r.closed /\ ~r.exited

\* A MSG with the expected SEQ was dropped for its ACK while bytes were
\* queued.
C9_Witness ==
  /\ call.op = "data_incoming" /\ call.verdict = "bad_ack"
  /\ sessions[1].state = SESSION_STATE_ESTABLISHED
  /\ buffer_get_remaining_bytes(sessions[1].outgoing_buffer) > 0

\* C10: once a MSG with SEQ q and payload has been accepted, a MSG with the
\* same SEQ q delivered while their_seq is not q changes nothing in the
\* session and hands no payload to the driver.
C10_DuplicateRejected ==
  \A q \in hist[1].accepted_seqs, da \in AckOffsets, data \in Payloads,
     length \in Reads(1) :
    LET polled == poll_for_data(sessions[1], length)
        packet == packet_create_msg_normal(sessions[1].id, q,
                    U16(sessions[1].my_seq + da), data)
        r == session_data_incoming(sessions[1], packet, length)
    IN  q # polled.their_seq
        => /\ r.verdict = "bad_seq"
           /\ r.session = polled
           /\ r.session.my_seq = sessions[1].my_seq
           /\ r.session.their_seq = sessions[1].their_seq
           /\ r.session.outgoing_buffer.position
                = sessions[1].outgoing_buffer.position
           /\ r.forwarded = <<>>

\* A MSG with the SEQ of an accepted MSG was delivered again and dropped by
\* the SEQ check; the driver holds the payload once.
C10_Witness ==
  /\ call.op = "data_incoming" /\ call.verdict = "bad_seq"
  /\ hist[1].redelivered
  /\ hist[1].accepted_seqs = {4660}
  /\ drivers[1].received = <<65>>

\* The bytes `side` has handed to its driver are the first bytes of the
\* stream the other side's driver supplied, in order.
DeliveredInOrder(side) ==
  LET received == drivers[side].received
  IN  /\ Len(received) <= sessions[Other(side)].outgoing_buffer.current_length
      /\ \A i \in 1..Len(received) : received[i] = i - 1

\* C1 (as claimed): over a carrier that loses, delays and duplicates
\* frames, what each side has delivered to its driver is a prefix of what
\* the other side pulled from its driver.
C1_OrderedDelivery ==
  \A side \in DOMAIN sessions : DeliveredInOrder(side)

\* C11 (as claimed): after a FIN received in state New, or a frame of
\* unknown type received in either state, is_shutdown is true, the driver
\* is closed and session_get_outgoing returns no frame any more.
C11_FatalIsTerminal ==
  \A side \in DOMAIN sessions :
    hist[side].fatal
    => /\ sessions[side].is_shutdown
       /\ drivers[side].closed
       /\ ~(/\ call.op = "get_outgoing" /\ call.side = side
            /\ call.result_type # "NULL")

\* C12: an Established session is Established after every call of
\* session_get_outgoing and of session_data_incoming, whatever the frame
\* (SYN, MSG, FIN, unknown type).
C12_StateOnlyForward ==
  sessions[1].state = SESSION_STATE_ESTABLISHED
  => /\ \A packet \in IncomingPackets(sessions[1]), length \in Reads(1) :
          session_data_incoming(sessions[1], packet, length).session.state
            = SESSION_STATE_ESTABLISHED
     /\ \A max_length \in MaxLengths, length \in Reads(1) :
          session_get_outgoing(sessions[1], now, max_length, length).session.state
            = SESSION_STATE_ESTABLISHED

\* A SYN was processed by a session that was Established before it (its
\* their_seq had already moved past the handshake's ISN), and it still is.
C12_Witness ==
  /\ call.op = "data_incoming" /\ call.packet_type = PACKET_TYPE_SYN
  /\ sessions[1].state = SESSION_STATE_ESTABLISHED
  /\ sessions[1].their_seq = 4661

\* The frame is one the session ignores with a warning.
Survivable(session, packet) ==
  \/ /\ session.state = SESSION_STATE_ESTABLISHED
     /\ packet.packet_type = PACKET_TYPE_SYN
  \/ /\ session.state = SESSION_STATE_NEW
     /\ packet.packet_type = PACKET_TYPE_MSG

\* C13 (amended): a SYN processed while Established, or a MSG processed
\* while New, leaves state, my_seq, their_seq, options and last_transmit as
\* they were before the call; is_shutdown and outgoing_buffer are as the
\* call's own poll of the driver left them: bytes may have been appended
\* behind the queued ones, and is_shutdown may have been set.
C13_IgnoredFrame ==
  \A packet \in IncomingPackets(sessions[1]), length \in Reads(1) :
    LET before == sessions[1]
        after == session_data_incoming(sessions[1], packet, length).session
    IN  Survivable(before, packet)
        => /\ after.state = before.state
           /\ after.my_seq = before.my_seq
           /\ after.their_seq = before.their_seq
           /\ after.options = before.options
           /\ after.last_transmit = before.last_transmit
           /\ after.id = before.id
           /\ after.outgoing_buffer.position = before.outgoing_buffer.position
           /\ IsPrefix(BufferBytes(before.outgoing_buffer),
                       BufferBytes(after.outgoing_buffer))
           /\ before.is_shutdown => after.is_shutdown
           /\ after = poll_for_data(before, length)

\* C13 (as claimed): after such a frame the whole session, is_shutdown and
\* the contents of outgoing_buffer included, is as it was before the call.
C13_NoChangeAtAll ==
  \A packet \in IncomingPackets(sessions[1]), length \in Reads(1) :
    Survivable(sessions[1], packet)
    => session_data_incoming(sessions[1], packet, length).session = sessions[1]

\* A MSG was processed in state New while the call's poll queued two
\* bytes: the session is still New, with its counters as created.
C13_Witness ==
  /\ call.op = "data_incoming" /\ call.packet_type = PACKET_TYPE_MSG
  /\ sessions[1].state = SESSION_STATE_NEW
  /\ sessions[1].their_seq = 0 /\ sessions[1].my_seq = 65534
  /\ BufferBytes(sessions[1].outgoing_buffer) = <<0, 1>>

\* C14: session_get_outgoing and poll_for_data change none of my_seq,
\* their_seq, state and id; session_data_incoming changes my_seq only with
\* an accepted MSG that acknowledges at least one byte, their_seq only with
\* a SYN in state New or an accepted MSG, and id never.
C14_CountersOnlyByIncoming ==
  LET before == sessions[1]
      Same(after) == /\ after.my_seq = before.my_seq
                     /\ after.their_seq = before.their_seq
                     /\ after.state = before.state
                     /\ after.id = before.id
  IN  /\ \A max_length \in MaxLengths, length \in Reads(1) :
           Same(session_get_outgoing(before, now, max_length, length).session)
      /\ \A length \in Reads(1) : Same(poll_for_data(before, length))
      /\ \A packet \in IncomingPackets(before), length \in Reads(1) :
           LET polled == poll_for_data(before, length)
               after == session_data_incoming(before, packet, length).session
           IN  /\ after.id = before.id
               /\ after.my_seq # before.my_seq
                    => /\ MustAccept(polled, packet)
                       /\ U16(packet.ack - before.my_seq) # 0
               /\ after.their_seq # before.their_seq
                    => \/ /\ before.state = SESSION_STATE_NEW
                          /\ packet.packet_type = PACKET_TYPE_SYN
                       \/ MustAccept(polled, packet)

\* session_get_outgoing has returned a MSG with payload, none of which is
\* acknowledged yet: my_seq is still the ISN, their_seq the peer's ISN.
C14_Witness ==
  /\ call.op = "get_outgoing" /\ call.result_type = PACKET_TYPE_MSG
  /\ call.result_length > 0
  /\ sessions[1].state = SESSION_STATE_ESTABLISHED
  /\ sessions[1].my_seq = 65534 /\ sessions[1].their_seq = 4660
  /\ sessions[1].outgoing_buffer.position = 0

\* C15 (as claimed): for every max_length, a MSG produced in state
\* Established carries at most max_length - header_overhead(options) bytes
\* of payload, so header and payload together fit in max_length.
C15_FrameFitsBudget ==
  \A max_length \in MaxLengths, length \in Reads(1) :
    LET r == session_get_outgoing(sessions[1], now, max_length, length)
        overhead == packet_get_msg_size(sessions[1].options)
    IN  /\ sessions[1].state = SESSION_STATE_ESTABLISHED
        /\ r.result.packet_type = PACKET_TYPE_MSG
        => /\ Len(r.result.data) <= max_length - overhead
           /\ overhead + Len(r.result.data) <= max_length

\* The number of bytes a budget of max_length leaves for the payload: none
\* when max_length does not exceed the header.
PayloadRoom(queued, max_length, overhead) ==
  IF max_length <= overhead THEN 0
  ELSE IF queued <= max_length - overhead THEN queued
  ELSE max_length - overhead

\* C16 (as claimed): a frame produced in state New is a SYN with the
\* session's id and my_seq; a frame produced in state Established is a FIN
\* when no byte was peeked and is_shutdown is set, and else a MSG with
\* seq = my_seq, ack = their_seq and the first
\* min(buffer length, max_length - header_overhead) buffered bytes.
C16_FrameByState ==
  \A max_length \in MaxLengths, length \in Reads(1) :
    LET r == session_get_outgoing(sessions[1], now, max_length, length)
        polled == poll_for_data(sessions[1], length)
        queued == BufferBytes(polled.outgoing_buffer)
        n == PayloadRoom(Len(queued), max_length,
                         packet_get_msg_size(polled.options))
    IN  r.result # NoPacket
        => IF polled.state = SESSION_STATE_NEW
           THEN /\ r.result.packet_type = PACKET_TYPE_SYN
                /\ r.result.session_id = polled.id
                /\ r.result.seq = polled.my_seq
           ELSE IF n = 0 /\ polled.is_shutdown
                THEN r.result.packet_type = PACKET_TYPE_FIN
                ELSE /\ r.result.packet_type = PACKET_TYPE_MSG
                     /\ r.result.session_id = polled.id
                     /\ r.result.seq = polled.my_seq
                     /\ r.result.ack = polled.their_seq
                     /\ r.result.data = SubSeq(queued, 1, n)

\* C17: session_get_outgoing leaves the bytes of outgoing_buffer as its
\* poll of the driver left them; and when the frame produced last was a
\* MSG and no MSG has been accepted since, a MSG produced now under the
\* same max_length has the same seq and a payload that begins with the
\* payload of that MSG, and equals it when that payload filled the budget.
C17_VerbatimRetransmission ==
  \A max_length \in MaxLengths, length \in Reads(1) :
    LET polled == poll_for_data(sessions[1], length)
        r == session_get_outgoing(sessions[1], now, max_length, length)
        first == hist[1].last_msg
    IN  /\ BufferBytes(r.session.outgoing_buffer)
             = BufferBytes(polled.outgoing_buffer)
        /\ r.session.outgoing_buffer.position
             = sessions[1].outgoing_buffer.position
        /\ IsPrefix(BufferBytes(sessions[1].outgoing_buffer),
                    BufferBytes(r.session.outgoing_buffer))
        /\ (/\ first # NoMsg /\ first.max_length = max_length
            /\ r.result.packet_type = PACKET_TYPE_MSG)
           => /\ r.result.seq = first.seq
              /\ IsPrefix(first.data, r.result.data)
              /\ Len(first.data)
                   = max_length - packet_get_msg_size(sessions[1].options)
                 => r.result.data = first.data

\* Two MSG frames in a row were produced under max_length 9 with nothing
\* acknowledged in between; a second byte was queued, and the second frame
\* carried the first byte alone, as the first frame did.
C17_Witness ==
  /\ call.op = "get_outgoing" /\ call.result_type = PACKET_TYPE_MSG
  /\ hist[1].last_msg.again
  /\ hist[1].last_msg.max_length = 9
  /\ hist[1].last_msg.data = <<0>>
  /\ BufferBytes(sessions[1].outgoing_buffer) = <<0, 1>>

\* Clock readings that leave time for the retransmission timer to expire
\* once more before the horizon.
LiveTimes == {StartTime + k * TickStep : k \in 0..(LiveTicks - 2)}

\* The session is Established at time t with the byte at stream offset b
\* at the front of outgoing_buffer.
Holding(b, t) ==
  /\ now = t
  /\ sessions[1].state = SESSION_STATE_ESTABLISHED
  /\ sessions[1].outgoing_buffer.position = b
  /\ sessions[1].outgoing_buffer.current_length > b

\* A MSG whose payload starts with the byte at offset b was produced
\* later than t.
Resent(b, t) ==
  /\ hist[1].last_emit > t
  /\ hist[1].last_msg # NoMsg
  /\ Len(hist[1].last_msg.data) > 0
  /\ hist[1].last_msg.data[1] = b

\* C18: while the clock advances and session_get_outgoing keeps being
\* called with room for payload, an Established session that holds the
\* unacknowledged byte b at time t produces, later than t, a MSG carrying
\* b, unless an accepted acknowledgment has consumed b by then.
C18_EventualRetransmission ==
  \A b \in 0..(LivePulled - 1), t \in LiveTimes :
    Holding(b, t)
      ~> (Resent(b, t) \/ sessions[1].outgoing_buffer.position > b)

\* The first byte was sent at one expiry of the timer and, still
\* unacknowledged, sent again at the next.
C18_Witness ==
  /\ call.op = "get_outgoing" /\ call.result_type = PACKET_TYPE_MSG
  /\ hist[1].last_msg.again
  /\ hist[1].last_msg.data = <<0>>
  /\ hist[1].last_emit = StartTime + 2 * TickStep
  /\ sessions[1].outgoing_buffer.position = 0

\* C19: is_shutdown is false in a session just created, and once it is
\* true it is true after every call of session_get_outgoing and of
\* session_data_incoming.
C19_ShutdownStable ==
  /\ \A id \in SessionIds, isn \in InitialSeqs, options \in OptionValues :
       ~session_create(id, isn, options).is_shutdown
  /\ sessions[1].is_shutdown
     => /\ \A max_length \in MaxLengths, length \in Reads(1) :
             session_get_outgoing(sessions[1], now, max_length, length)
               .session.is_shutdown
        /\ \A packet \in IncomingPackets(sessions[1]), length \in Reads(1) :
             session_data_incoming(sessions[1], packet, length)
               .session.is_shutdown

\* A FIN or a frame of unknown type closed the driver and set is_shutdown
\* in state Established; session_get_outgoing has run since and returned a
\* frame, and is_shutdown is still set.
C19_Witness ==
  /\ sessions[1].is_shutdown
  /\ drivers[1].closed
  /\ call.op = "get_outgoing" /\ call.result_type # "NULL"

\* C20 (as claimed): whenever session_get_outgoing returns a FIN,
\* outgoing_buffer is empty.
C20_FinOnlyWhenEmpty ==
  \A max_length \in MaxLengths, length \in Reads(1) :
    LET r == session_get_outgoing(sessions[1], now, max_length, length)
    IN  r.result.packet_type = PACKET_TYPE_FIN
        => BufferBytes(r.session.outgoing_buffer) = <<>>

=============================================================================
